---- MODULE Spec2Model ----
(***************************************************************************)
(* Model of the INTACT backend (src/main.py): batch creation of studies,   *)
(* submission of test results, and CSV/ZIP export, over the two document   *)
(* collections `studies` and `tests` and the server's working directory.   *)
(*                                                                         *)
(* Threads.  Every researcher endpoint is wrapped by check_admin_password, *)
(* whose wrapper is a coroutine that calls the synchronous path operation  *)
(* directly: those handlers run on the event loop, one at a time.          *)
(* insert_test is a plain synchronous path operation: it runs in a worker  *)
(* thread and its steps interleave with whatever the event loop is doing.  *)
(***************************************************************************)
EXTENDS Integers, Sequences, FiniteSets, TLC

VARIABLES
    studies,   \* the `studies` collection, in insertion order
    tests,     \* the `tests` collection, in insertion order
    files,     \* working directory: file name -> content, for the files that exist
    cs,        \* per server process, the frame of the create_studies call running on its event loop
    it,        \* frame of the insert_test call running in a worker thread
    exports,   \* export requests whose handler returned: file still to serve, then clean up
    resp,      \* the response produced last
    oid        \* number of ObjectId() values handed out so far

vars == <<studies, tests, files, cs, it, exports, resp, oid>>

(***************************************************************************)
(* Bounds of the model.                                                    *)
(***************************************************************************)
\* random.randint(0, 10_000) is modelled as a draw from 0..MaxCode.
MaxCode == 2
\* at most this many test submissions are accepted
MaxTests == 1

(***************************************************************************)
(* Settings and program constants.                                         *)
(***************************************************************************)
admin_password == "password"
study_url_prefix == <<"https://intact.sail.codes">>
MaxStudiesPerRequest == 1000

HTTP_200_OK == 200
HTTP_400_BAD_REQUEST == 400
HTTP_401_UNAUTHORIZED == 401
HTTP_500_INTERNAL_SERVER_ERROR == 500

BASELINE == "baseline"
FOLLOWUP == "followup"

IMMEDIATE_RECALL == "immediate_recall"
DELAYED_RECALL == "delayed_recall"
CHOICE_REACTION_TIME == "choice_reaction_time"
VISUAL_PAIRED_ASSOCIATES == "visual_paired_associates"
DIGIT_SYMBOL_MATCHING == "digit_symbol_matching"
SPATIAL_MEMORY == "spatial_memory"

TestType == <<IMMEDIATE_RECALL, DELAYED_RECALL, CHOICE_REACTION_TIME,
              VISUAL_PAIRED_ASSOCIATES, DIGIT_SYMBOL_MATCHING, SPATIAL_MEMORY>>

(***************************************************************************)
(* Text.  A str is a sequence of one-character strings.                    *)
(***************************************************************************)
NL == "\n"
Whitespace == {" ", NL}
AlnumChars == {"a", "b", "1"}
\* a byte that is not valid UTF-8
BadByte == "0xff"

Range(s) == {s[i] : i \in DOMAIN s}

\* str.splitlines(): cut at every line break; a trailing line break opens no new line
RECURSIVE splitlines(_)
splitlines(text) ==
    IF text = <<>> THEN <<>>
    ELSE IF \E i \in DOMAIN text : text[i] = NL
         THEN LET i == CHOOSE k \in DOMAIN text :
                           text[k] = NL /\ \A j \in 1..(k - 1) : text[j] # NL
              IN  <<SubSeq(text, 1, i - 1)>> \o splitlines(SubSeq(text, i + 1, Len(text)))
         ELSE <<text>>

\* str.strip(): drop leading and trailing whitespace
RECURSIVE strip(_)
strip(s) ==
    IF s = <<>> THEN s
    ELSE IF s[1] \in Whitespace THEN strip(Tail(s))
    ELSE IF s[Len(s)] \in Whitespace THEN strip(SubSeq(s, 1, Len(s) - 1))
    ELSE s

\* str.isalnum(): nonempty and every character alphanumeric
isalnum(s) == s # <<>> /\ \A i \in DOMAIN s : s[i] \in AlnumChars

\* prefix.rstrip("/")
RECURSIVE rstrip_slash(_)
rstrip_slash(s) ==
    IF s # <<>> /\ s[Len(s)] = "/" THEN rstrip_slash(SubSeq(s, 1, Len(s) - 1)) ELSE s

\* [s.strip() for s in participant_ids.splitlines()]
ParseRows(text) == LET ls == splitlines(text) IN [i \in DOMAIN ls |-> strip(ls[i])]

\* str(bytes, encoding="utf-8") raises on a byte sequence that is not UTF-8
Decodable(bytes) == BadByte \notin Range(bytes)

(***************************************************************************)
(* Study codes.                                                            *)
(***************************************************************************)
\* sqids.encode([n]): the code of n.  Sqids codes decode back to n, so two
\* numbers never share a code; the code is kept apart from the number.
sqids_encode(n) == [sqid |-> n]

StudyIds == {studies[i].study_id : i \in DOMAIN studies}

\* the record Study(study_id=..., url=..., participant_id=..., study_type=...).dict()
Study(study_id, pid, type) ==
    [study_id |-> study_id,
     url |-> rstrip_slash(study_url_prefix) \o <<"/", study_id>>,
     participant_id |-> pid,
     study_type |-> type]

Idle == [pc |-> "idle"]

Response(status, message, body) ==
    [status |-> status, message |-> message, body |-> body]

\* what the server answers when a handler raises
InternalServerError ==
    Response(HTTP_500_INTERNAL_SERVER_ERROR, <<"Internal Server Error">>, <<>>)

\* no response yet: the request is still being handled
NoResponse == Response(0, <<>>, <<>>)

\* The server processes that serve the app against the one database.  Each
\* has its own event loop; the requests to the endpoints other than batch
\* creation are followed in process 1.
Workers == {1, 2}

Init ==
    /\ studies = <<>>
    /\ tests = <<>>
    /\ files = [f \in {<<"adminpage", ".html">>} |-> <<"html">>]
    /\ cs = [w \in Workers |-> Idle]
    /\ it = [pc |-> "idle", rv |-> NoResponse]
    /\ exports = <<>>
    /\ resp = NoResponse
    /\ oid = 0


(***************************************************************************)
(* check_admin_password                                                    *)
(***************************************************************************)
\* mutant: the wrapper lets every password through
WrongPassword_never(password) == FALSE

\* the wrapper's test: kwargs["password"] != settings.admin_password
WrongPassword(password) == password # admin_password

Unauthorized == Response(HTTP_401_UNAUTHORIZED, <<"Wrong admin password">>, <<>>)

\* The event loop of process w is free to start a handler, serve a file or
\* start a background task only while no synchronous handler is running on it.
LoopFree(w) == cs[w].pc = "idle"

(***************************************************************************)
(* create_studies                                                          *)
(***************************************************************************)
\* the four checks made before any code is generated; "" when all pass
CountChecks(participant_ids, baselines, followups) ==
    IF baselines < 0 \/ followups < 0
    THEN "baselines_per_participant and followups_per_participant must be nonnegative"
    ELSE IF baselines = 0 /\ followups = 0
    THEN "At least one of baselines_per_participant and followups_per_participant must be nonzero"
    ELSE IF Len(participant_ids) = 0
    THEN "Received empty participant list"
    ELSE IF Len(participant_ids) * (baselines + followups) > MaxStudiesPerRequest
    THEN "Too many studies requested, or too many empty lines in file; please contact SAIL for assistance."
    ELSE ""

\* create_studies up to the call of generate_new_study_ids
CreateStudiesEnter(w, participant_ids, baselines, followups) ==
    LET err == CountChecks(participant_ids, baselines, followups) IN
    IF err # ""
    THEN /\ resp' = Response(HTTP_400_BAD_REQUEST, <<err>>, <<>>)
         /\ cs' = [cs EXCEPT ![w] = Idle]
    ELSE /\ cs' = [cs EXCEPT ![w] =
                    [pc |-> "gen",
                     participant_ids |-> participant_ids,
                     baselines |-> baselines, followups |-> followups,
                     number |-> Len(participant_ids) * (baselines + followups),
                     new_study_ids |-> {}]]
         /\ resp' = NoResponse

\* POST /studies
create_studies_from_list(w, password, participant_ids, baselines, followups) ==
    /\ LoopFree(w)
    /\ IF WrongPassword(password)
       THEN resp' = Unauthorized /\ UNCHANGED cs
       ELSE CreateStudiesEnter(w, ParseRows(participant_ids),
                               baselines, followups)
    /\ UNCHANGED <<studies, tests, files, it, exports, oid>>

\* POST /studies/upload-file
create_studies_via_file_upload(w, password, participant_ids_file, baselines, followups) ==
    /\ LoopFree(w)
    /\ IF WrongPassword(password)
       THEN resp' = Unauthorized /\ UNCHANGED cs
       ELSE IF ~Decodable(participant_ids_file)
       THEN /\ resp' = Response(HTTP_400_BAD_REQUEST,
                    <<"Could not read file; make sure it is a .txt or .csv file and contains only a newline-separated list of alphanumeric participant IDs.">>, <<>>)
            /\ UNCHANGED cs
       ELSE CreateStudiesEnter(w, ParseRows(participant_ids_file), baselines, followups)
    /\ UNCHANGED <<studies, tests, files, it, exports, oid>>

\* mutant: the collision check against the collection is left out
Persisted_unchecked(study_id) == FALSE

\* studies.find({"study_id": new_study_id}) is nonempty
Persisted(study_id) == study_id \in StudyIds

\* mutant: the upper end of the range is never drawn
Draws_exclusive == 0..(MaxCode - 1)

\* the values of random.randint(0, 10_000)
Draws == 0..MaxCode

\* one pass of the while loop of generate_new_study_ids in process w, drawing n
generate_new_study_ids(w, n) ==
    /\ cs[w].pc = "gen"
    /\ Cardinality(cs[w].new_study_ids) < cs[w].number
    /\ LET new_study_id == sqids_encode(n) IN
       IF Persisted(new_study_id)
       THEN UNCHANGED cs
       ELSE cs' = [cs EXCEPT ![w].new_study_ids = @ \cup {new_study_id}]
    /\ UNCHANGED <<studies, tests, files, it, exports, resp, oid>>

\* mutant: the boundary between baselines and followups is off by one
RecordsFor_offbyone(pid, baselines, followups, ids) ==
    [k \in 1..(baselines + followups) |->
        Study(ids[k], pid, IF k < baselines THEN BASELINE ELSE FOLLOWUP)]

\* the b baseline and f followup records of one participant, popping from `ids`
RecordsFor(pid, baselines, followups, ids) ==
    [k \in 1..(baselines + followups) |->
        Study(ids[k], pid, IF k <= baselines THEN BASELINE ELSE FOLLOWUP)]

\* mutant: the isalnum test is left out
RECURSIVE BuildRecords_unchecked(_, _, _, _, _)
BuildRecords_unchecked(participant_ids, baselines, followups, pops, acc) ==
    IF participant_ids = <<>> THEN [ok |-> TRUE, records |-> acc]
    ELSE LET pid == Head(participant_ids) IN
         IF Len(pid) = 0
         THEN BuildRecords_unchecked(Tail(participant_ids), baselines, followups, pops, acc)
         ELSE BuildRecords_unchecked(Tail(participant_ids), baselines, followups,
                           SubSeq(pops, baselines + followups + 1, Len(pops)),
                           acc \o RecordsFor(pid, baselines, followups, pops))

\* mutant: a participant who already has studies gets no new ones
RECURSIVE BuildRecords_once(_, _, _, _, _)
BuildRecords_once(participant_ids, baselines, followups, pops, acc) ==
    IF participant_ids = <<>> THEN [ok |-> TRUE, records |-> acc]
    ELSE LET pid == Head(participant_ids) IN
         IF Len(pid) = 0 \/ \E i \in DOMAIN studies : studies[i].participant_id = pid
         THEN BuildRecords_once(Tail(participant_ids), baselines, followups, pops, acc)
         ELSE IF ~isalnum(pid) THEN [ok |-> FALSE, records |-> acc]
         ELSE BuildRecords_once(Tail(participant_ids), baselines, followups,
                           SubSeq(pops, baselines + followups + 1, Len(pops)),
                           acc \o RecordsFor(pid, baselines, followups, pops))

\* the for loop over participant_ids: `pops` is the order in which
\* new_study_ids.pop() hands out the codes
RECURSIVE BuildRecords(_, _, _, _, _)
BuildRecords(participant_ids, baselines, followups, pops, acc) ==
    IF participant_ids = <<>> THEN [ok |-> TRUE, records |-> acc]
    ELSE LET pid == Head(participant_ids) IN
         IF Len(pid) = 0
         THEN BuildRecords(Tail(participant_ids), baselines, followups, pops, acc)
         ELSE IF ~isalnum(pid) THEN [ok |-> FALSE, records |-> acc]
         ELSE BuildRecords(Tail(participant_ids), baselines, followups,
                           SubSeq(pops, baselines + followups + 1, Len(pops)),
                           acc \o RecordsFor(pid, baselines, followups, pops))

\* the orders in which a set can be emptied by pop()
PopOrders(S) ==
    {p \in [1..Cardinality(S) -> S] : \A i, j \in DOMAIN p : i # j => p[i] # p[j]}

\* create_studies from the return of generate_new_study_ids to its own return
create_studies(w) ==
    /\ cs[w].pc = "gen"
    /\ Cardinality(cs[w].new_study_ids) = cs[w].number
    /\ \E pops \in PopOrders(cs[w].new_study_ids) :
        LET built == BuildRecords(cs[w].participant_ids, cs[w].baselines, cs[w].followups,
                                  pops, <<>>) IN
        IF ~built.ok
        THEN /\ resp' = Response(HTTP_400_BAD_REQUEST,
                                 <<"Non-alphanumeric participant IDs are not allowed">>, <<>>)
             /\ UNCHANGED studies
        ELSE IF built.records = <<>>
        \* insert_many refuses an empty list; the except clause re-raises
        THEN /\ resp' = InternalServerError
             /\ UNCHANGED studies
        ELSE /\ studies' = studies \o built.records
             /\ resp' = Response(HTTP_200_OK, <<>>, built.records)
    /\ cs' = [cs EXCEPT ![w] = Idle]
    /\ UNCHANGED <<tests, files, it, exports, oid>>

(***************************************************************************)
(* Test results.  An object of a result class is [cls, fields]; .dict()    *)
(* keeps the fields and forgets the class.  A result is [list, items]:     *)
(* a list of objects, or (list = FALSE) the single object items[1].        *)
(***************************************************************************)
None == <<>>
Some(x) == <<x>>

ImmediateRecallResult == "ImmediateRecallResult"
DelayedRecallResult == "DelayedRecallResult"
ChoiceReactionTimeResult == "ChoiceReactionTimeResult"
VisualPairedAssociatesResult == "VisualPairedAssociatesResult"
DigitSymbolMatchingResult == "DigitSymbolMatchingResult"
SpatialMemoryResult == "SpatialMemoryResult"

ResultClasses ==
    {ImmediateRecallResult, DelayedRecallResult, ChoiceReactionTimeResult,
     VisualPairedAssociatesResult, DigitSymbolMatchingResult, SpatialMemoryResult}

\* mutant: two entries of the table are swapped
result_type_to_test_type_swapped ==
    [c \in ResultClasses |->
        CASE c = ImmediateRecallResult -> DELAYED_RECALL
          [] c = DelayedRecallResult -> IMMEDIATE_RECALL
          [] c = ChoiceReactionTimeResult -> CHOICE_REACTION_TIME
          [] c = VisualPairedAssociatesResult -> VISUAL_PAIRED_ASSOCIATES
          [] c = DigitSymbolMatchingResult -> DIGIT_SYMBOL_MATCHING
          [] c = SpatialMemoryResult -> SPATIAL_MEMORY]

result_type_to_test_type ==
    [c \in ResultClasses |->
        CASE c = ImmediateRecallResult -> IMMEDIATE_RECALL
          [] c = DelayedRecallResult -> DELAYED_RECALL
          [] c = ChoiceReactionTimeResult -> CHOICE_REACTION_TIME
          [] c = VisualPairedAssociatesResult -> VISUAL_PAIRED_ASSOCIATES
          [] c = DigitSymbolMatchingResult -> DIGIT_SYMBOL_MATCHING
          [] c = SpatialMemoryResult -> SPATIAL_MEMORY]

test_type_to_result_type ==
    [t \in Range(TestType) |->
        CASE t = IMMEDIATE_RECALL -> ImmediateRecallResult
          [] t = DELAYED_RECALL -> DelayedRecallResult
          [] t = CHOICE_REACTION_TIME -> ChoiceReactionTimeResult
          [] t = VISUAL_PAIRED_ASSOCIATES -> VisualPairedAssociatesResult
          [] t = DIGIT_SYMBOL_MATCHING -> DigitSymbolMatchingResult
          [] t = SPATIAL_MEMORY -> SpatialMemoryResult]

\* <class>.model_fields.keys()
ModelFields(c) ==
    CASE c = ImmediateRecallResult -> {"ir_rt_first", "ir_rt_second", "ir_score"}
      [] c = DelayedRecallResult -> {"dr_rt", "dr_score"}
      [] c = ChoiceReactionTimeResult -> {"crt_rt", "crt_correct", "crt_response", "crt_dwell"}
      [] c = VisualPairedAssociatesResult -> {"vpa_rt", "vpa_correct", "vpa_response"}
      [] c = DigitSymbolMatchingResult -> {"dsm_rt", "dsm_correct", "dsm_response"}
      [] c = SpatialMemoryResult -> {"sm_rt", "sm_correct"}

StudyFields == {"study_id", "participant_id", "url", "study_type"}
TestInFields ==
    {"study_id", "time_started", "time_elapsed_milliseconds", "device_info", "result"}
TestFields == TestInFields \cup {"test_id", "test_type"}

Obj(cls, fields) == [cls |-> cls, fields |-> fields]

\* result.dict(): objects become plain dicts
ResultDict(result) ==
    [list |-> result.list,
     items |-> [i \in DOMAIN result.items |-> result.items[i].fields]]

\* d.update(e)
Update(d, e) ==
    [k \in DOMAIN d \cup DOMAIN e |-> IF k \in DOMAIN e THEN e[k] ELSE d[k]]

\* the keys of d other than k: d.pop(k)
Without(d, k) == [j \in DOMAIN d \ {k} |-> d[j]]

\* TestIn(**body): the declared fields are kept, any other key is ignored
TestIn(body) == [k \in TestInFields |-> body[k]]

\* the object str(ObjectId()) number k
ObjectId(k) == [oid |-> k]

(***************************************************************************)
(* insert_test                                                             *)
(***************************************************************************)
\* studies.find_one({"study_id": study_id}): the first match, or None
find_one(study_id) ==
    IF \E i \in DOMAIN studies : studies[i].study_id = study_id
    THEN Some(studies[CHOOSE i \in DOMAIN studies :
                        /\ studies[i].study_id = study_id
                        /\ \A j \in 1..(i - 1) : studies[j].study_id # study_id])
    ELSE None

\* mutant: the submission is accepted whether or not the study exists
NotMatched_lenient(study_id) == FALSE

\* `if not matched_study` after matched_study = studies.find_one(...)
NotMatched(study_id) == find_one(study_id) = None

\* the class whose test type insert_test looks up: type(test.result[0]) for a
\* list, type(test.result) otherwise
InferredClass(result) == result.items[1].cls

\* insert_test from its entry to the lookup of the study
insert_test_check(body) ==
    /\ it.pc = "idle"
    /\ oid < MaxTests
    /\ LET test == TestIn(body) IN
       IF test.result.list /\ test.result.items = <<>>
       \* test.result[0] raises IndexError
       THEN it' = [pc |-> "idle",
                   rv |-> InternalServerError]
       ELSE LET new_test_dict ==
                    Update([test EXCEPT !.result = ResultDict(test.result)],
                           [test_type |-> result_type_to_test_type[InferredClass(test.result)]])
            IN  IF NotMatched(test.study_id)
                THEN it' = [pc |-> "idle",
                            rv |-> Response(HTTP_400_BAD_REQUEST,
                                            <<"Could not find study with id ", test.study_id>>, <<>>)]
                ELSE it' = [pc |-> "insert", new_test_dict |-> new_test_dict]
    /\ UNCHANGED <<studies, tests, files, cs, exports, resp, oid>>

\* insert_test from "All OK" to its return
insert_test_insert ==
    /\ it.pc = "insert"
    /\ LET validated_test_dict == Update(it.new_test_dict, [test_id |-> ObjectId(oid)]) IN
       /\ tests' = Append(tests, validated_test_dict)
       /\ it' = [pc |-> "idle", rv |-> Response(HTTP_200_OK, <<>>, <<validated_test_dict>>)]
    /\ oid' = oid + 1
    /\ UNCHANGED <<studies, files, cs, exports, resp>>

(***************************************************************************)
(* Export.  A file name is <<stem, extension>>; a CSV file is its header   *)
(* (the DictWriter's fieldnames) and the dicts written as rows.            *)
(***************************************************************************)
Csv(stem) == <<stem, ".csv">>
Zip(stem) == <<stem, ".zip">>

\* f.endswith((".csv", ".zip"))
IsExportFile(f) == f[2] \in {".csv", ".zip"}

\* a ^ b on key views
SymDiff(a, b) == (a \ b) \cup (b \ a)

\* the fieldnames write_single_test_type_to_csv_file gives its DictWriter
Fieldnames(test_type) ==
    SymDiff(SymDiff(TestFields \ {"result", "study_id"},
                    ModelFields(test_type_to_result_type[test_type])),
            StudyFields)

\* mutant: every row is written with the fields of the first question
QuestionRows_first(test, questions, study) ==
    [i \in DOMAIN questions |-> Update(Update(test, questions[1]), study)]

\* the rows of a list-shaped result: `test` is updated in place, question by question
RECURSIVE QuestionRows(_, _, _)
QuestionRows(test, questions, study) ==
    IF questions = <<>> THEN <<>>
    ELSE LET row == Update(Update(test, Head(questions)), study) IN
         <<row>> \o QuestionRows(row, Tail(questions), study)

\* the body of the loop `for test in all_tests`, for one test: the rows it
\* writes, and whether it got through without raising
RowsOfTest(t, participant_id) ==
    LET study == find_one(t.study_id)
        test == Without(Without(t, "study_id"), "result")
    IN  IF study = None
        \* study["participant_id"] or study.pop("_id") on None raises TypeError
        THEN [ok |-> FALSE, rows |-> <<>>]
        ELSE IF participant_id # <<>> /\ study[1].participant_id # participant_id
        THEN [ok |-> TRUE, rows |-> <<>>]
        ELSE [ok |-> TRUE,
              rows |-> IF t.result.list
                       THEN QuestionRows(test, t.result.items, study[1])
                       ELSE <<Update(Update(test, t.result.items[1]), study[1])>>]

\* tests.find({"test_type": test_type}), then the loop over what it found
RECURSIVE ExportLoop(_, _, _, _)
ExportLoop(all_tests, test_type, participant_id, fieldnames) ==
    IF all_tests = <<>> THEN [ok |-> TRUE, rows |-> <<>>]
    ELSE IF Head(all_tests).test_type # test_type
    THEN ExportLoop(Tail(all_tests), test_type, participant_id, fieldnames)
    ELSE LET one == RowsOfTest(Head(all_tests), participant_id) IN
         \* DictWriter.writerow raises ValueError on a key that is no fieldname
         IF ~one.ok \/ \E i \in DOMAIN one.rows : ~(DOMAIN one.rows[i] \subseteq fieldnames)
         THEN [ok |-> FALSE, rows |-> <<>>]
         ELSE LET rest == ExportLoop(Tail(all_tests), test_type, participant_id, fieldnames)
              IN  [ok |-> rest.ok, rows |-> one.rows \o rest.rows]

\* what write_single_test_type_to_csv_file leaves in csvfile, and whether it returned
write_single_test_type_to_csv_file(test_type, participant_id) ==
    LET fieldnames == Fieldnames(test_type)
        loop == ExportLoop(tests, test_type, participant_id, fieldnames)
    IN  [ok |-> loop.ok, content |-> [fieldnames |-> fieldnames, rows |-> loop.rows]]

\* open(name, "w") ... : the file is created or overwritten
WriteFile(fs, name, content) ==
    [n \in DOMAIN fs \cup {name} |-> IF n = name THEN content ELSE fs[n]]

\* the handler returned FileResponse(name) and queued clean_up_files
Queue(name) == Append(exports, [pc |-> "send", file |-> name])

\* POST /studies/download-file
get_studies_as_csv_file(password, room) ==
    /\ LoopFree(1)
    /\ IF WrongPassword(password)
       THEN resp' = Unauthorized /\ UNCHANGED <<files, exports>>
       ELSE /\ Len(exports) < room
            /\ files' = WriteFile(files, Csv("studies"),
                                  [fieldnames |-> StudyFields, rows |-> studies])
            /\ exports' = Queue(Csv("studies"))
            /\ resp' = NoResponse
    /\ UNCHANGED <<studies, tests, cs, it, oid>>

\* POST /tests/single-test-type/download-file
get_single_test_type_as_csv_file(password, test_type, participant_id, room) ==
    /\ LoopFree(1)
    /\ IF WrongPassword(password)
       THEN resp' = Unauthorized /\ UNCHANGED <<files, exports>>
       ELSE LET written == write_single_test_type_to_csv_file(test_type, participant_id) IN
            /\ Len(exports) < room
            /\ files' = WriteFile(files, Csv("test"), written.content)
            /\ IF written.ok
               THEN exports' = Queue(Csv("test")) /\ resp' = NoResponse
               ELSE UNCHANGED exports /\ resp' = InternalServerError
    /\ UNCHANGED <<studies, tests, cs, it, oid>>

\* the files of the zip archive handler after its loop has handled the first k test types
RECURSIVE ZipLoop(_, _, _)
ZipLoop(fs, k, participant_id) ==
    IF k = 0 THEN [ok |-> TRUE, files |-> WriteFile(fs, Zip("all-tests"), <<>>)]
    ELSE LET before == ZipLoop(fs, k - 1, participant_id) IN
         IF ~before.ok THEN before
         ELSE LET csv_filename == Csv(TestType[k])
                  written == write_single_test_type_to_csv_file(TestType[k], participant_id)
                  with_csv == WriteFile(before.files, csv_filename, written.content)
              IN  IF ~written.ok THEN [ok |-> FALSE, files |-> with_csv]
                  \* zipfile.write(csv_filename)
                  ELSE [ok |-> TRUE,
                        files |-> WriteFile(with_csv, Zip("all-tests"),
                                     Append(with_csv[Zip("all-tests")],
                                            [name |-> csv_filename,
                                             content |-> with_csv[csv_filename]]))]

\* POST /tests/zip-archive/download-file
get_tests_as_csv_zip_archive(password, participant_id, room) ==
    /\ LoopFree(1)
    /\ IF WrongPassword(password)
       THEN resp' = Unauthorized /\ UNCHANGED <<files, exports>>
       ELSE LET done == ZipLoop(files, Len(TestType), participant_id) IN
            /\ Len(exports) < room
            /\ files' = done.files
            /\ IF done.ok
               THEN exports' = Queue(Zip("all-tests")) /\ resp' = NoResponse
               ELSE UNCHANGED exports /\ resp' = InternalServerError
    /\ UNCHANGED <<studies, tests, cs, it, oid>>

\* exports without its i-th entry
Dequeue(i) == SubSeq(exports, 1, i - 1) \o SubSeq(exports, i + 1, Len(exports))

\* the FileResponse of the i-th waiting export is sent
send_file(i) ==
    /\ LoopFree(1)
    /\ i \in DOMAIN exports
    /\ exports[i].pc = "send"
    /\ IF exports[i].file \in DOMAIN files
       THEN /\ resp' = Response(HTTP_200_OK, <<>>, <<files[exports[i].file]>>)
            /\ exports' = [exports EXCEPT ![i].pc = "cleanup"]
       \* no such file: the response raises and its background task never runs
       ELSE /\ resp' = InternalServerError
            /\ exports' = Dequeue(i)
    /\ UNCHANGED <<studies, tests, files, cs, it, oid>>

\* the background task of the i-th export, after its response
clean_up_files(i) ==
    /\ LoopFree(1)
    /\ i \in DOMAIN exports
    /\ exports[i].pc = "cleanup"
    /\ files' = [f \in {g \in DOMAIN files : ~IsExportFile(g)} |-> files[f]]
    /\ exports' = Dequeue(i)
    /\ UNCHANGED <<studies, tests, cs, it, resp, oid>>

(***************************************************************************)
(* Requests.                                                               *)
(***************************************************************************)
Passwords == {admin_password, "letmein"}

\* request bodies: participant id lists as typed or uploaded
Texts ==
    { <<>>,
      <<"a">>,
      <<"a", NL, "b">>,
      <<"a", NL, "a">>,
      <<"a", NL>>,
      <<" ", "a", " ", NL, NL, "b">>,
      <<NL, NL>>,
      <<"a", "-", "1">>,
      <<"a", NL, "a", " ", "b">>,
      <<"a", " ", "b", NL, "a">> }

Uploads == Texts \cup { <<"a", BadByte>> }

\* <<baselines_per_participant, followups_per_participant>>
Counts ==
    { <<1, 1>>, <<1, 0>>, <<0, 1>>, <<2, 1>>,
      <<0, 0>>, <<-1, 1>>, <<1, -1>>, <<1001, 0>>, <<1, 1000>> }

\* result objects as clients send them
Question(cls, k) ==
    Obj(cls,
        CASE cls = ImmediateRecallResult ->
                 [ir_rt_first |-> 900 * k,
                  ir_rt_second |-> IF k = 1 THEN None ELSE Some(1200),
                  ir_score |-> 2 - k]
          [] cls = DelayedRecallResult -> [dr_rt |-> 700 * k, dr_score |-> k]
          [] cls = ChoiceReactionTimeResult ->
                 [crt_rt |-> 300 * k, crt_correct |-> k = 1,
                  crt_response |-> IF k = 1 THEN "right" ELSE "left", crt_dwell |-> 50 * k]
          [] cls = VisualPairedAssociatesResult ->
                 [vpa_rt |-> 400 * k, vpa_correct |-> k = 1, vpa_response |-> "fox.png"]
          [] cls = DigitSymbolMatchingResult ->
                 [dsm_rt |-> 500 * k, dsm_correct |-> k = 1, dsm_response |-> k]
          [] cls = SpatialMemoryResult -> [sm_rt |-> 600 * k, sm_correct |-> k = 1])

Single(cls) == [list |-> FALSE, items |-> <<Question(cls, 1)>>]
ListOf(cls, ks) == [list |-> TRUE, items |-> [i \in DOMAIN ks |-> Question(cls, ks[i])]]
EmptyList == [list |-> TRUE, items |-> <<>>]

ListClasses ==
    {ChoiceReactionTimeResult, VisualPairedAssociatesResult,
     DigitSymbolMatchingResult, SpatialMemoryResult}

Results ==
    {Single(ImmediateRecallResult), Single(DelayedRecallResult), EmptyList}
    \cup {ListOf(c, <<1>>) : c \in ListClasses}
    \cup {ListOf(SpatialMemoryResult, <<2, 1>>), ListOf(VisualPairedAssociatesResult, <<1, 2>>)}

\* a study id no draw of generate_new_study_ids encodes
UnknownStudyId == sqids_encode(10001)

\* the JSON body of POST /tests
Body(study_id, result) ==
    [study_id |-> study_id, time_started |-> "2024-05-01T10:00:00",
     time_elapsed_milliseconds |-> 61000, device_info |-> "tablet", result |-> result]

\* the same body with a test_type key, which TestIn does not declare
BodyWithTestType(study_id, result) ==
    Update(Body(study_id, result), [test_type |-> SPATIAL_MEMORY])

Bodies(study_ids, results) ==
    {Body(i, r) : i \in study_ids, r \in results}
    \cup {BodyWithTestType(i, Single(ImmediateRecallResult)) : i \in study_ids}

\* the participant_id form field of the export endpoints; <<>> when not given
Filters == {<<>>, <<"a">>}

Creation(workers, texts, uploads, counts) ==
    \/ \E w \in workers, pw \in Passwords, t \in texts, c \in counts :
          create_studies_from_list(w, pw, t, c[1], c[2])
    \/ \E w \in workers, pw \in Passwords, u \in uploads, c \in counts :
          create_studies_via_file_upload(w, pw, u, c[1], c[2])
    \/ \E w \in workers, n \in Draws : generate_new_study_ids(w, n)
    \/ \E w \in workers : create_studies(w)

Submission(bodies) ==
    \/ \E body \in bodies : insert_test_check(body)
    \/ insert_test_insert

\* `room`: how many export requests may wait for their file at once
Export(types, filters, room) ==
    \/ \E pw \in Passwords : get_studies_as_csv_file(pw, room)
    \/ \E pw \in Passwords, t \in types, p \in filters :
          get_single_test_type_as_csv_file(pw, t, p, room)
    \/ \E pw \in Passwords, p \in filters : get_tests_as_csv_zip_archive(pw, p, room)
    \/ \E i \in 1..room : send_file(i)
    \/ \E i \in 1..room : clean_up_files(i)

\* batch creation alone in one process, one request at a time
StudiesNext == Creation({1}, Texts, Uploads, Counts)

SpecStudies == Init /\ [][StudiesNext]_vars

\* the same, with fair random draws: a value that would add a code to the
\* set is not passed over forever
SpecDraws ==
    SpecStudies /\ \A n \in Draws : WF_vars(generate_new_study_ids(1, n))

\* batch creation and test submission, interleaved
FewTexts == {<<"a">>, <<"a", "-">>}
FewUploads == {<<"b">>, <<"b", BadByte>>}
FewCounts == {<<1, 1>>, <<-1, 0>>}
TestBodies == Bodies({sqids_encode(0), UnknownStudyId}, Results)

TestsNext ==
    \/ Creation({1}, FewTexts, FewUploads, FewCounts)
    \/ Submission(TestBodies)

SpecTests == Init /\ [][TestsNext]_vars

\* every endpoint
FewBodies ==
    Bodies({sqids_encode(0), UnknownStudyId},
           {Single(DelayedRecallResult), EmptyList, ListOf(SpatialMemoryResult, <<2, 1>>)})
ExportTypes == {DELAYED_RECALL, SPATIAL_MEMORY}

Next ==
    \/ Creation({1}, FewTexts, FewUploads, FewCounts)
    \/ Submission(FewBodies)
    \/ Export(ExportTypes, Filters, 1)

Spec == Init /\ [][Next]_vars

\* every endpoint, with two export responses in flight at once: the event
\* loop takes up the next request while a FileResponse waits to be sent
ExportsNext ==
    \/ Creation({1}, FewTexts, FewUploads, FewCounts)
    \/ Submission(FewBodies)
    \/ Export(ExportTypes, Filters, 2)

SpecExports == Init /\ [][ExportsNext]_vars

\* batch creation in two server processes: each runs one handler at a time,
\* and their reads and writes of the studies collection interleave
WorkersNext == Creation(Workers, FewTexts, FewUploads, FewCounts)

SpecWorkers == Init /\ [][WorkersNext]_vars

(***************************************************************************)
(* Properties of batch creation (checked under SpecStudies).               *)
(***************************************************************************)
\* the participant ids of a request that are not blank lines
NonBlank(rows) == SelectSeq(rows, LAMBDA r : r # <<>>)

\* some participant id of the request is neither blank nor alphanumeric
HasNonAlnum(rows) == \E i \in DOMAIN rows : rows[i] # <<>> /\ ~isalnum(rows[i])

\* the step in which create_studies returns
CreateStudiesReturns == cs[1].pc = "gen" /\ cs'[1].pc = "idle"

\* what the step appended to the studies collection
Appended == SubSeq(studies', Len(studies) + 1, Len(studies'))

CountStudies(ss, pid, type) ==
    Cardinality({i \in DOMAIN ss : ss[i].participant_id = pid /\ ss[i].study_type = type})

Occurrences(rows, pid) == Cardinality({i \in DOMAIN rows : rows[i] = pid})

\* C1: all persisted studies have pairwise distinct study_id, and the codes
\* generate_new_study_ids has collected for the running batch are none of
\* the persisted ones and no more than the batch asked for.
C1_StudyIdsUnique ==
    /\ \A i, j \in DOMAIN studies : i # j => studies[i].study_id # studies[j].study_id
    /\ cs[1].pc = "gen" =>
          /\ cs[1].new_study_ids \cap StudyIds = {}
          /\ Cardinality(cs[1].new_study_ids) <= cs[1].number

\* C1 witness: a second batch has been persisted on top of an earlier one.
C1_Witness ==
    /\ resp.status = HTTP_200_OK
    /\ resp.body # <<>>
    /\ Len(studies) > Len(resp.body)

\* C2: when create_studies returns without a validation error it has
\* appended, for each non-blank participant id in list order, first
\* baselines_per_participant BASELINE records and then
\* followups_per_participant FOLLOWUP records of that participant, and
\* nothing else: (non-blank ids) * (baselines + followups) new records.
C2_BatchRecords ==
    [][(CreateStudiesReturns /\ resp'.status # HTTP_400_BAD_REQUEST) =>
        LET ids == NonBlank(cs[1].participant_ids)
            per == cs[1].baselines + cs[1].followups
        IN  /\ Len(studies') = Len(studies) + Len(ids) * per
            /\ SubSeq(studies', 1, Len(studies)) = studies
            /\ \A i \in DOMAIN ids : \A k \in 1..per :
                  LET r == Appended[(i - 1) * per + k] IN
                  /\ r.participant_id = ids[i]
                  /\ r.study_type = IF k <= cs[1].baselines THEN BASELINE ELSE FOLLOWUP
            /\ \A i \in DOMAIN ids :
                  /\ CountStudies(Appended, ids[i], BASELINE)
                        = Occurrences(ids, ids[i]) * cs[1].baselines
                  /\ CountStudies(Appended, ids[i], FOLLOWUP)
                        = Occurrences(ids, ids[i]) * cs[1].followups]_vars

\* C2 witness: a batch of two baselines and one followup for one participant
\* has been persisted.
C2_Witness ==
    /\ resp.status = HTTP_200_OK
    /\ Len(resp.body) = 3
    /\ resp.body[1].study_type = BASELINE
    /\ resp.body[2].study_type = BASELINE
    /\ resp.body[3].study_type = FOLLOWUP
    /\ SubSeq(studies, Len(studies) - 2, Len(studies)) = resp.body

\* C3: a request with a non-alphanumeric participant id never changes the
\* studies collection, whichever step of it is taken, and every answer it
\* gets is a client error: no step that starts a request and changes the
\* collection or answers otherwise is a step of such a request, and once its
\* codes are generated create_studies returns the non-alphanumeric error.
C3_NonAlnumRejected ==
    [][/\ (cs[1].pc = "idle" /\
             \/ studies' # studies
             \/ ~(\/ resp' = NoResponse
                  \/ resp'.status \in {HTTP_400_BAD_REQUEST, HTTP_401_UNAUTHORIZED}))
            => ~\E pw \in Passwords, u \in Uploads, c \in Counts :
                  /\ HasNonAlnum(ParseRows(u))
                  /\ \/ create_studies_from_list(1, pw, u, c[1], c[2])
                     \/ create_studies_via_file_upload(1, pw, u, c[1], c[2])
       /\ (cs[1].pc = "gen" /\ HasNonAlnum(cs[1].participant_ids))
            => /\ studies' = studies
               /\ cs'[1].pc = "idle" =>
                     resp' = Response(HTTP_400_BAD_REQUEST,
                                 <<"Non-alphanumeric participant IDs are not allowed">>, <<>>)]_vars

\* C3 witness: a request has been rejected for a non-alphanumeric id after
\* its codes were generated, and the collection holds what it held before.
C3_Witness ==
    /\ resp = Response(HTTP_400_BAD_REQUEST,
                       <<"Non-alphanumeric participant IDs are not allowed">>, <<>>)
    /\ cs[1].pc = "idle"
    /\ studies # <<>>

\* the error the stated order of checks gives a request, "" when it passes
\* them all: counts nonnegative, one count nonzero, list nonempty once blank
\* lines are dropped, at most 1000 studies requested, every id alphanumeric
StatedFirstViolation(rows, baselines, followups) ==
    IF baselines < 0 \/ followups < 0
    THEN "baselines_per_participant and followups_per_participant must be nonnegative"
    ELSE IF baselines = 0 /\ followups = 0
    THEN "At least one of baselines_per_participant and followups_per_participant must be nonzero"
    ELSE IF NonBlank(rows) = <<>>
    THEN "Received empty participant list"
    ELSE IF Len(rows) * (baselines + followups) > MaxStudiesPerRequest
    THEN "Too many studies requested, or too many empty lines in file; please contact SAIL for assistance."
    ELSE IF HasNonAlnum(rows)
    THEN "Non-alphanumeric participant IDs are not allowed"
    ELSE ""

\* C4 (as claimed): when create_studies returns after its codes were
\* generated, its answer is the client error of the first violated check in
\* the stated order (the list being tested for emptiness after blank lines
\* are dropped), or success when no check is violated.
C4_StatedOrder ==
    [][CreateStudiesReturns
        => LET v == StatedFirstViolation(cs[1].participant_ids, cs[1].baselines, cs[1].followups)
           IN  IF v = "" THEN resp'.status = HTTP_200_OK
               ELSE resp' = Response(HTTP_400_BAD_REQUEST, <<v>>, <<>>)]_vars

\* C9: a batch that is accepted adds its records whatever the collection
\* already holds: each participant of the request has occurrences * baselines
\* more BASELINE and occurrences * followups more FOLLOWUP studies than
\* before, under study ids none of which was persisted before.
C9_NotIdempotent ==
    [][(CreateStudiesReturns /\ resp'.status = HTTP_200_OK) =>
        LET ids == NonBlank(cs[1].participant_ids) IN
        /\ \A i \in DOMAIN ids :
              /\ CountStudies(studies', ids[i], BASELINE)
                    = CountStudies(studies, ids[i], BASELINE)
                        + Occurrences(ids, ids[i]) * cs[1].baselines
              /\ CountStudies(studies', ids[i], FOLLOWUP)
                    = CountStudies(studies, ids[i], FOLLOWUP)
                        + Occurrences(ids, ids[i]) * cs[1].followups
        /\ {Appended[k].study_id : k \in DOMAIN Appended} \cap StudyIds = {}
        /\ Cardinality({Appended[k].study_id : k \in DOMAIN Appended})
              = Len(ids) * (cs[1].baselines + cs[1].followups)]_vars

\* C9 witness: the collection is one batch followed by the same batch again,
\* participant by participant and type by type, under different study ids.
C9_Witness ==
    /\ resp.status = HTTP_200_OK
    /\ resp.body # <<>>
    /\ Len(studies) = 2 * Len(resp.body)
    /\ \A k \in DOMAIN resp.body :
          /\ studies[Len(resp.body) + k] = resp.body[k]
          /\ studies[k].participant_id = resp.body[k].participant_id
          /\ studies[k].study_type = resp.body[k].study_type
          /\ studies[k].study_id # resp.body[k].study_id

\* the codes of the codespace: the encodings of the integers 0..MaxCode
Codespace == {sqids_encode(n) : n \in 0..MaxCode}

\* the codes of the codespace that no persisted study carries
FreeCodes == Codespace \ StudyIds

\* generate_new_study_ids is running its loop
Generating == cs[1].pc = "gen" /\ Cardinality(cs[1].new_study_ids) < cs[1].number

\* generate_new_study_ids has left its loop with all the codes asked for
Generated == cs[1].pc = "gen" /\ Cardinality(cs[1].new_study_ids) = cs[1].number

\* C12: under fair draws, generate_new_study_ids called for a number of
\* codes that is at most the number of codes not yet persisted eventually
\* returns that many codes; called for more than are left, the request never
\* leaves the loop, gets no answer and persists nothing.
C12_GenerationTerminates ==
    /\ (cs[1].pc = "gen" /\ cs[1].number <= Cardinality(FreeCodes)) ~> Generated
    /\ [][(cs[1].pc = "gen" /\ cs[1].number > Cardinality(FreeCodes))
            => /\ Generating'
               /\ studies' = studies
               /\ resp' = NoResponse]_vars

\* C12 witness: an earlier batch has been generated and persisted, and the
\* running request asks for more codes than are left: it has collected every
\* free code and is still in the loop.
C12_Witness ==
    /\ studies # <<>>
    /\ Generating
    /\ cs[1].number > Cardinality(FreeCodes)
    /\ cs[1].new_study_ids = FreeCodes
    /\ resp = NoResponse

(***************************************************************************)
(* Properties of concurrent batch creation (checked under SpecWorkers).    *)
(***************************************************************************)
\* how many persisted studies carry the code
PersistedUnder(study_id) ==
    Cardinality({i \in DOMAIN studies : studies[i].study_id = study_id})

\* the processes whose running batch has collected the code
Holders(study_id) ==
    {w \in Workers : cs[w].pc = "gen" /\ study_id \in cs[w].new_study_ids}

\* C11: when batch creation runs in two processes at once, two persisted
\* studies can come to share a study_id, and only through the window between
\* one batch's generation and its insert: for every code, the studies
\* persisted under it and the running batches that have collected it number
\* at most one per process.  So a code is persisted a second time only by a
\* batch that collected it before the other process persisted it, and never
\* a third time.
C11_DuplicateOnlyByRace ==
    \A n \in Draws :
        PersistedUnder(sqids_encode(n)) + Cardinality(Holders(sqids_encode(n)))
            <= Cardinality(Workers)

\* C11 witness: both processes have returned from create_studies, the second
\* with success, and two persisted studies share a study_id.
C11_Witness ==
    /\ \A w \in Workers : cs[w].pc = "idle"
    /\ resp.status = HTTP_200_OK
    /\ \E i, j \in DOMAIN studies :
          /\ i < j
          /\ studies[i].study_id = studies[j].study_id
          /\ studies[j] \in Range(resp.body)
          /\ studies[i] \notin Range(resp.body)

(***************************************************************************)
(* Properties of test submission (checked under SpecTests).                *)
(***************************************************************************)
StudyNotFound(study_id) ==
    Response(HTTP_400_BAD_REQUEST, <<"Could not find study with id ", study_id>>, <<>>)

\* C5 (as claimed): a submission whose study_id matches no persisted study
\* is answered with the study-not-found client error and leaves the tests
\* collection as it was, whatever the shape of its result.
C5_UnknownStudyRejected ==
    [][\A body \in TestBodies :
          ((\A i \in DOMAIN studies : studies[i].study_id # body.study_id)
             /\ insert_test_check(body))
          => (it'.rv = StudyNotFound(body.study_id) /\ tests' = tests)]_vars

\* the test type the fixed mapping gives a result of this shape
TypeOfShape(keys) ==
    CASE keys = {"ir_rt_first", "ir_rt_second", "ir_score"} -> IMMEDIATE_RECALL
      [] keys = {"dr_rt", "dr_score"} -> DELAYED_RECALL
      [] keys = {"crt_rt", "crt_correct", "crt_response", "crt_dwell"} -> CHOICE_REACTION_TIME
      [] keys = {"vpa_rt", "vpa_correct", "vpa_response"} -> VISUAL_PAIRED_ASSOCIATES
      [] keys = {"dsm_rt", "dsm_correct", "dsm_response"} -> DIGIT_SYMBOL_MATCHING
      [] keys = {"sm_rt", "sm_correct"} -> SPATIAL_MEMORY
      [] OTHER -> "none"

\* C6: every persisted test carries the test_type that the mapping gives the
\* shape of its result, whether the result is a single record or a list, and
\* whatever test_type key the request body carried.
C6_TestTypeFromShape ==
    \A i \in DOMAIN tests :
        /\ tests[i].result.items # <<>>
        /\ \A k \in DOMAIN tests[i].result.items :
              tests[i].test_type = TypeOfShape(DOMAIN tests[i].result.items[k])

\* C6 witness: a list-shaped result of two questions has been persisted as a
\* visual paired associates test.
C6_Witness ==
    \E i \in DOMAIN tests :
        /\ tests[i].result.list
        /\ Len(tests[i].result.items) = 2
        /\ tests[i].test_type = VISUAL_PAIRED_ASSOCIATES
        /\ it.pc = "idle" /\ it.rv.status = HTTP_200_OK

\* C7: every persisted test's study_id is the study_id of a persisted study.
C7_TestsReferToStudies ==
    \A i \in DOMAIN tests : \E j \in DOMAIN studies :
        studies[j].study_id = tests[i].study_id

\* C7 witness: a test has been persisted and a later batch creation is in
\* the middle of generating its codes.
C7_Witness ==
    /\ tests # <<>>
    /\ cs[1].pc = "gen"
    /\ cs[1].new_study_ids # {}

(***************************************************************************)
(* Properties of the researcher endpoints and of export (checked under     *)
(* Spec).                                                                  *)
(***************************************************************************)
\* C8: a request to a researcher endpoint with a password other than the
\* admin password is answered Unauthorized and changes neither collection,
\* no file and no handler frame: no step that answers otherwise or changes
\* any of them is a step of such a request.
C8_WrongPasswordNoEffect ==
    [][(resp' # Unauthorized \/ <<studies, tests, files, cs, exports>>'
                                   # <<studies, tests, files, cs, exports>>)
        => ~\E pw \in Passwords \ {admin_password} :
              \/ \E t \in FewTexts, c \in FewCounts :
                    create_studies_from_list(1, pw, t, c[1], c[2])
              \/ \E u \in FewUploads, c \in FewCounts :
                    create_studies_via_file_upload(1, pw, u, c[1], c[2])
              \/ get_studies_as_csv_file(pw, 1)
              \/ \E t \in ExportTypes, p \in Filters :
                    get_single_test_type_as_csv_file(pw, t, p, 1)
              \/ \E p \in Filters : get_tests_as_csv_zip_archive(pw, p, 1)]_vars

\* C8 witness: Unauthorized has been answered while both collections held
\* records and no export file existed.
C8_Witness ==
    /\ resp = Unauthorized
    /\ studies # <<>>
    /\ tests # <<>>
    /\ \A f \in DOMAIN files : ~IsExportFile(f)

\* the study a test is joined with
JoinedStudy(t) == CHOOSE st \in Range(studies) : st.study_id = t.study_id

\* the row of sub-question q of test t: the test's own fields, the fields of
\* q, and the fields of the joined study
StatedRow(t, q) ==
    LET st == JoinedStudy(t)
        keys == {"test_id", "test_type", "time_started", "time_elapsed_milliseconds",
                 "device_info"} \cup DOMAIN q \cup StudyFields
    IN  [key \in keys |->
            IF key \in DOMAIN q THEN q[key]
            ELSE IF key \in StudyFields THEN st[key]
            ELSE t[key]]

\* the rows an export of test_type for participant_id holds: for each
\* matching test in turn, one row per sub-question of a list (none for an
\* empty list), one row for a single record
RECURSIVE StatedRows(_, _, _)
StatedRows(ts, test_type, participant_id) ==
    IF ts = <<>> THEN <<>>
    ELSE LET t == Head(ts)
             rest == StatedRows(Tail(ts), test_type, participant_id)
         IN  IF t.test_type # test_type
                \/ (participant_id # <<>> /\ JoinedStudy(t).participant_id # participant_id)
             THEN rest
             ELSE [k \in DOMAIN t.result.items |-> StatedRow(t, t.result.items[k])] \o rest

\* C10: an export of a test type leaves in its CSV file exactly the stated
\* rows, in the single-type file and in each member of the zip archive.
C10_ExportRows ==
    [][(cs[1].pc = "idle" /\ files' # files) =>
        /\ \A t \in ExportTypes, p \in Filters :
              get_single_test_type_as_csv_file(admin_password, t, p, 1)
              => files'[Csv("test")].rows = StatedRows(tests, t, p)
        /\ \A p \in Filters :
              get_tests_as_csv_zip_archive(admin_password, p, 1)
              => \A k \in DOMAIN TestType :
                    /\ files'[Zip("all-tests")][k].name = Csv(TestType[k])
                    /\ files'[Zip("all-tests")][k].content.rows
                          = StatedRows(tests, TestType[k], p)]_vars

\* C10 witness: the exported file holds the two rows of one spatial memory
\* test of two sub-questions, with the same test and study fields and each
\* its own answer.
C10_Witness ==
    /\ Csv("test") \in DOMAIN files
    /\ Len(files[Csv("test")].rows) = 2
    /\ LET rows == files[Csv("test")].rows IN
       /\ rows[1].test_id = rows[2].test_id
       /\ rows[1].study_id = rows[2].study_id
       /\ rows[1].test_type = SPATIAL_MEMORY
       /\ rows[1].sm_rt # rows[2].sm_rt
       /\ rows[1].sm_rt = tests[1].result.items[1].sm_rt
       /\ rows[2].sm_rt = tests[1].result.items[2].sm_rt

\* C13 (as claimed): while an export request waits for its response to be
\* sent, no step deletes the file it returns or changes what the file holds:
\* the file it wrote is the file that is served.
C13_ServedFileIntact ==
    [][\A i \in DOMAIN exports :
          (exports[i].pc = "send" /\ exports[i].file \in DOMAIN files)
          => /\ exports[i].file \in DOMAIN files'
             /\ files'[exports[i].file] = files[exports[i].file]]_vars

====
